---- MODULE Spec2Model ----
(***************************************************************************)
(* Keyframe animation of vkb::sg::Animation                                *)
(* (framework/scene_graph/components/animation.{h,cpp}).                   *)
(*                                                                         *)
(* Time is counted in ticks of half a second, so that the time stamps, the *)
(* clock and the frame deltas are integers: 0.5 s is 1 tick and 1.0 s is   *)
(* 2 ticks.  Interpolated values are exact rationals <<n, d>> (reduced,    *)
(* d > 0); float rounding is not modelled.  Indices are 0-based as in the  *)
(* C++ source; At(seq, i) is seq[i] of the source.                         *)
(***************************************************************************)
EXTENDS Integers, Sequences, FiniteSets, TLC

VARIABLES
    animation_samplers,   \* Animation::animation_samplers
    animation_channels,   \* Animation::animation_channels
    current_time,         \* Animation::current_time
    end,                  \* Animation::end
    nodes,                \* the transforms of the target scene nodes
    delta_time,           \* argument of the last update() call
    writes,               \* set_* calls made by the last update(), in order
    oob,                  \* arrays the last update() read out of range
    crashed               \* the last update() died on an out-of-range read

vars == <<animation_samplers, animation_channels, current_time, end, nodes,
          delta_time, writes, oob, crashed>>

----------------------------------------------------------------------------
(* Bounds of the model. *)

MaxKeys == 3
MaxTime == 2
MaxEnd == 2
MaxDeltaTime == 2

----------------------------------------------------------------------------
(* Exact arithmetic standing for float. *)

Abs(a) == IF a < 0 THEN -a ELSE a

Max(a, b) == IF a >= b THEN a ELSE b

Min(a, b) == IF a <= b THEN a ELSE b

RECURSIVE Gcd(_, _)
Gcd(a, b) == IF b = 0 THEN a ELSE Gcd(b, a % b)

\* n/d as a reduced fraction with a positive denominator (d # 0).
Rat(n, d) ==
    LET g == Gcd(Abs(n), Abs(d))
        s == IF d < 0 THEN -1 ELSE 1
    IN  <<(s * n) \div g, (s * d) \div g>>

RInt(n) == <<n, 1>>

RAdd(a, b) == Rat(a[1] * b[2] + b[1] * a[2], a[2] * b[2])

RSub(a, b) == Rat(a[1] * b[2] - b[1] * a[2], a[2] * b[2])

RMul(a, b) == Rat(a[1] * b[1], a[2] * b[2])

RLe(a, b) == a[1] * b[2] <= b[1] * a[2]

\* 0.0f / 0.0f
NaN == <<0, 0>>

IsNaN(a) == a[2] = 0

----------------------------------------------------------------------------
(* The data model of animation.h. *)

InterpolationType == {"LINEAR", "STEP", "CUBICSPLINE"}

PathType == {"TRANSLATION", "ROTATION", "SCALE"}

\* seq[i] of the source, for an index in range.
At(seq, i) == seq[i + 1]

InRange(seq, i) == i >= 0 /\ i < Len(seq)

\* The number of floats per value: 3 for a vec3 property, 4 for a quaternion.
Stride(path) == IF path = "ROTATION" THEN 4 ELSE 3

\* A read of a float array: an out-of-range read yields the garbage g.
ReadFloat(seq, i, g) == IF InRange(seq, i) THEN At(seq, i) ELSE g

\* A read of a vec4 array: an out-of-range read yields garbage components.
ReadVec4(seq, i, g) == IF InRange(seq, i) THEN At(seq, i) ELSE <<g, g, g, g>>

\* The conversion glm::vec4 -> glm::vec3 done by set_translation/set_scale.
ToVec3(v) == <<v[1], v[2], v[3]>>

\* A vec4 of integers as a vec4 of rationals.
RVec(v) == [c \in DOMAIN v |-> RInt(v[c])]

\* A blend with its weights exchanged.
MixSwapped(x, y, a) ==
    [c \in DOMAIN x |-> Rat(x[c] * a[1] + y[c] * (a[2] - a[1]), a[2])]

\* glm::mix(x, y, a) == x * (1 - a) + y * a, component by component, of two
\* integer vectors and a fraction a = n / d.
Mix(x, y, a) ==
    [c \in DOMAIN x |-> Rat(x[c] * (a[2] - a[1]) + y[c] * a[1], a[2])]

\* The dot product of two integer vectors.
IDot(x, y) == x[1] * y[1] + x[2] * y[2] + x[3] * y[3] + x[4] * y[4]

Dot(x, y) ==
    RAdd(RAdd(RMul(x[1], y[1]), RMul(x[2], y[2])),
         RAdd(RMul(x[3], y[3]), RMul(x[4], y[4])))

\* A quaternion is <<x, y, z, w>> / sqrt(n2): the square root that
\* normalisation divides by is kept symbolic.
Quat(v) == [v |-> v, n2 |-> RInt(1)]

IdentityQuat == Quat(RVec(<<0, 0, 0, 1>>))

\* The squared magnitude of a quaternion.
Length2(q) == RMul(Dot(q.v, q.v), <<q.n2[2], q.n2[1]>>)

\* A normalisation left out.
NormalizeMissing(q) == q

\* glm::normalize(quat): the identity for a length <= 0, else q / length(q).
Normalize(q) ==
    IF Dot(q.v, q.v)[1] <= 0 THEN IdentityQuat
    ELSE [v |-> q.v, n2 |-> Dot(q.v, q.v)]

\* cos and sin of a * pi/2 for a fraction a in [0, 1], as <<c, s, n2>> standing
\* for c / sqrt(n2) and s / sqrt(n2).  Exact at a = 0, 1/2 and 1; elsewhere
\* the nearest of the points (4/5, 3/5) and (3/5, 4/5) of the unit circle.
CosSinQuarterTurn(a) ==
    IF a = RInt(0) THEN <<1, 0, 1>>
    ELSE IF a = RInt(1) THEN <<0, 1, 1>>
    ELSE IF a = <<1, 2>> THEN <<1, 1, 2>>
    ELSE IF RLe(a, <<1, 2>>) THEN <<4, 3, 25>>
    ELSE <<3, 4, 25>>

\* glm::slerp(x, y, a) of two key quaternions.  The key quaternions have
\* integer components, so cosTheta is an integer: either >= 1 (glm's linear
\* branch, cosTheta > 1 - epsilon) or 0 (angle = pi/2, sin(angle) = 1).
Slerp(x, y, a) ==
    LET neg == IDot(x, y) < 0
        z == IF neg THEN [c \in 1..4 |-> -y[c]] ELSE y
        cosTheta == IF neg THEN -IDot(x, y) ELSE IDot(x, y)
        cs == CosSinQuarterTurn(a)
    IN  IF cosTheta >= 1 THEN Quat(Mix(x, z, a))
        ELSE [v |-> [c \in 1..4 |-> RInt(cs[1] * x[c] + cs[2] * z[c])],
              n2 |-> RInt(cs[3])]

----------------------------------------------------------------------------
(* AnimationSampler. *)

\* float u = std::max(0.0f, time - inputs[index]) / (inputs[index + 1] - inputs[index])
Fraction(time, a, b) ==
    IF b - a = 0 THEN NaN ELSE Rat(Max(0, time - a), b - a)

\* AnimationSampler::cubicSplineInterpolation, the components 0..stride-1.
\* With t = n / delta, the powers t, t2 and t3 are kept as numerators over the
\* common denominator delta^3.
cubicSplineInterpolation(s, index, time, stride, g) ==
    LET delta == ReadFloat(s.inputs, index + 1, g) - ReadFloat(s.inputs, index, g)
        n == time - ReadFloat(s.inputs, index, g)
        current == index * stride * 3
        next == (index + 1) * stride * 3
        A == 0
        V == stride * 1
        B == stride * 2
        one == delta * delta * delta
        t == n * delta * delta
        t2 == n * n * delta
        t3 == n * n * n
        pt(i) ==
            LET p0 == ReadFloat(s.outputs, current + i + V, g)
                m0 == delta * ReadFloat(s.outputs, current + i + A, g)
                p1 == ReadFloat(s.outputs, next + i + V, g)
                m1 == delta * ReadFloat(s.outputs, next + i + B, g)
            IN  Rat(((2 * t3 - 3 * t2 + one) * p0) + ((t3 - 2 * t2 + t) * m0)
                    + ((-2 * t3 + 3 * t2) * p1) + ((t3 - t2) * m0),
                    one)
    IN  [c \in 1..stride |-> pt(c - 1)]

\* The vec3 that translate and scale hand to the transform.
SampleVec3(s, index, time, g) ==
    CASE s.interpolation = "LINEAR" ->
            ToVec3(Mix(ReadVec4(s.outputsVec4, index, g),
                       ReadVec4(s.outputsVec4, index + 1, g),
                       Fraction(time, ReadFloat(s.inputs, index, g),
                                ReadFloat(s.inputs, index + 1, g))))
      [] s.interpolation = "STEP" ->
            ToVec3(RVec(ReadVec4(s.outputsVec4, index, g)))
      [] s.interpolation = "CUBICSPLINE" ->
            cubicSplineInterpolation(s, index, time, 3, g)

\* AnimationSampler::translate
translate(s, index, time, transform, g) ==
    [transform EXCEPT !.translation = SampleVec3(s, index, time, g)]

\* AnimationSampler::scale
scale(s, index, time, transform, g) ==
    [transform EXCEPT !.scale = SampleVec3(s, index, time, g)]

\* AnimationSampler::rotate
rotate(s, index, time, transform, g) ==
    [transform EXCEPT !.rotation =
        CASE s.interpolation = "LINEAR" ->
                Normalize(Slerp(ReadVec4(s.outputsVec4, index, g),
                                ReadVec4(s.outputsVec4, index + 1, g),
                                Fraction(time, ReadFloat(s.inputs, index, g),
                                         ReadFloat(s.inputs, index + 1, g))))
          [] s.interpolation = "STEP" ->
                Quat(RVec(ReadVec4(s.outputsVec4, index, g)))
          [] s.interpolation = "CUBICSPLINE" ->
                Normalize(Quat(cubicSplineInterpolation(s, index, time, 4, g)))]

\* The highest index at which one sampler method call reads array arr, -1
\* when it does not read it.  Every read is at an index >= 0.
LastRead(s, path, index, arr) ==
    CASE arr = "inputs" ->
            IF s.interpolation = "STEP" THEN -1 ELSE index + 1
      [] arr = "outputsVec4" ->
            IF s.interpolation = "LINEAR" THEN index + 1
            ELSE IF s.interpolation = "STEP" THEN index
            ELSE -1
      [] arr = "outputs" ->
            IF s.interpolation = "CUBICSPLINE"
            THEN (index + 1) * Stride(path) * 3 + (Stride(path) - 1)
                 + Stride(path) * 2
            ELSE -1

\* The arrays that one sampler method call reads out of range.
EvalOutOfRange(s, path, index) ==
    {arr \in {"inputs", "outputsVec4", "outputs"} :
        LastRead(s, path, index, arr) >= Len(s[arr])}

\* The arrays that the segment test of iteration i reads out of range: it
\* reads inputs[i] and inputs[i + 1].
ScanOutOfRange(s, i) == IF i + 1 >= Len(s.inputs) THEN {"inputs"} ELSE {}

----------------------------------------------------------------------------
(* Animation::update. *)

\* size_t arithmetic wraps; the width is cut to 30 bits, which keeps the
\* wrapped value far above every vector length.
SizeModulus == 2 ^ 30

\* The bound inputs.size() - 1 of the segment loop, as a size_t.
LoopBound(s) == (Len(s.inputs) - 1) % SizeModulus

\* The iterations of the segment loop that the model runs: past the end of
\* inputs every iteration reads the same garbage, so MaxKeys + 1 of them stand
\* for the rest.
ScanLimit(s) == Min(LoopBound(s), MaxKeys + 1)

\* The check made against the flat float array instead of outputsVec4.
SkippedByFlatOutputs(s) == Len(s.inputs) > Len(s.outputs)

\* if (animation_sampler.inputs.size() > animation_sampler.outputsVec4.size()) continue;
Skipped(s) == Len(s.inputs) > Len(s.outputsVec4)

\* A segment test that excludes the end of the segment.
MatchesHalfOpen(s, i, time, g) ==
    LET a == ReadFloat(s.inputs, i, g)
        b == ReadFloat(s.inputs, i + 1, g)
    IN  time >= a /\ time < b

\* current_time >= inputs[i] && current_time <= inputs[i + 1], and u <= 1.0f
Matches(s, i, time, g) ==
    LET a == ReadFloat(s.inputs, i, g)
        b == ReadFloat(s.inputs, i + 1, g)
        u == Fraction(time, a, b)
    IN  /\ time >= a
        /\ time <= b
        /\ ~IsNaN(u)
        /\ RLe(u, RInt(1))

\* switch (animation_channel.path)
Dispatch(ch, s, i, time, transform, g) ==
    CASE ch.path = "TRANSLATION" -> translate(s, i, time, transform, g)
      [] ch.path = "SCALE" -> scale(s, i, time, transform, g)
      [] ch.path = "ROTATION" -> rotate(s, i, time, transform, g)

\* One iteration of the segment loop for channel c (1-based position in
\* animation_channels) and segment i.  ub.crash: an out-of-range read kills
\* the process; otherwise it yields ub.value.
Segment(acc, c, i, time, ub) ==
    LET ch == animation_channels[c]
        s == At(animation_samplers, ch.samplerIndex)
        scanOob == ScanOutOfRange(s, i)
        evalOob == EvalOutOfRange(s, ch.path, i)
    IN  IF scanOob # {} /\ ub.crash
        THEN [acc EXCEPT !.oob = @ \cup scanOob, !.crashed = TRUE]
        ELSE IF ~Matches(s, i, time, ub.value)
        THEN [acc EXCEPT !.oob = @ \cup scanOob]
        ELSE IF evalOob # {} /\ ub.crash
        THEN [acc EXCEPT !.oob = @ \cup scanOob \cup evalOob, !.crashed = TRUE]
        ELSE [acc EXCEPT
                 !.oob = @ \cup scanOob \cup evalOob,
                 !.nodes[ch.node] =
                     Dispatch(ch, s, i, time, acc.nodes[ch.node], ub.value),
                 !.writes = Append(@, [channel |-> c, index |-> i,
                                       time |-> time])]

\* A segment loop that leaves at the first segment it evaluates.
RECURSIVE SegmentLoopBreak(_, _, _, _, _)
SegmentLoopBreak(acc, c, i, time, ub) ==
    LET s == At(animation_samplers, animation_channels[c].samplerIndex)
    IN  IF acc.crashed \/ i >= ScanLimit(s) THEN acc
        ELSE IF Len(Segment(acc, c, i, time, ub).writes) > Len(acc.writes)
        THEN Segment(acc, c, i, time, ub)
        ELSE SegmentLoopBreak(Segment(acc, c, i, time, ub), c, i + 1, time, ub)

\* for (size_t i = 0; i < animation_sampler.inputs.size() - 1; i++), from i on
RECURSIVE SegmentLoop(_, _, _, _, _)
SegmentLoop(acc, c, i, time, ub) ==
    LET s == At(animation_samplers, animation_channels[c].samplerIndex)
    IN  IF acc.crashed \/ i >= ScanLimit(s) THEN acc
        ELSE SegmentLoop(Segment(acc, c, i, time, ub), c, i + 1, time, ub)

\* for (auto &animation_channel : animation_channels), from channel c on
RECURSIVE ChannelLoop(_, _, _, _)
ChannelLoop(acc, c, time, ub) ==
    IF acc.crashed \/ c > Len(animation_channels) THEN acc
    ELSE LET s == At(animation_samplers, animation_channels[c].samplerIndex)
         IN  ChannelLoop(IF Skipped(s) THEN acc
                         ELSE SegmentLoop(acc, c, 0, time, ub),
                         c + 1, time, ub)

\* A wrap that carries the overshoot over instead of resetting to 0.
AdvanceCarry(time, dt, e) == IF time + dt > e THEN time + dt - e ELSE time + dt

\* current_time += delta_time; if (current_time > end) current_time = 0.0f;
Advance(time, dt, e) == IF time + dt > e THEN 0 ELSE time + dt

\* An update that advances the clock before it evaluates the channels.
EvaluationTimeAdvanced(time, dt, e) == Advance(time, dt, e)

\* The time at which update(dt) evaluates the channels: current_time before
\* it is advanced (the loop of lines 138-168 precedes line 169).
EvaluationTime(time, dt, e) == time

\* Whether some channel of the clip can read out of range.
MayReadOutOfRange ==
    \E c \in 1..Len(animation_channels) :
        LET ch == animation_channels[c]
            s == At(animation_samplers, ch.samplerIndex)
        IN  /\ ~Skipped(s)
            /\ \/ Len(s.inputs) = 0
               \/ \E i \in 0..(Len(s.inputs) - 2) :
                      EvalOutOfRange(s, ch.path, i) # {}

GarbageValues == {0, 7}

\* What an out-of-range read can do.
UbOutcomes ==
    IF MayReadOutOfRange
    THEN {[crash |-> TRUE, value |-> 0]}
         \cup {[crash |-> FALSE, value |-> g] : g \in GarbageValues}
    ELSE {[crash |-> FALSE, value |-> 0]}

\* Animation::update(delta_time)
update(dt, ub) ==
    \E acc \in {ChannelLoop([nodes |-> nodes, writes |-> <<>>, oob |-> {},
                            crashed |-> FALSE],
                           1, EvaluationTime(current_time, dt, end), ub)} :
        /\ ~crashed
        /\ nodes' = acc.nodes
        /\ writes' = acc.writes
        /\ oob' = acc.oob
        /\ crashed' = acc.crashed
        /\ delta_time' = dt
        /\ current_time' = IF acc.crashed THEN current_time
                           ELSE Advance(current_time, dt, end)
        /\ UNCHANGED <<animation_samplers, animation_channels, end>>

----------------------------------------------------------------------------
(* The clips the model plays. *)

\* Key values: a track takes the entries of this ring in order.
ValuePool == << <<0, 0, 0, 0>>, <<10, 0, 0, 0>>, <<0, 3, 4, 0>>, <<2, -1, 0, 1>> >>

PoolEntry(e) == ValuePool[(e % Len(ValuePool)) + 1]

\* Time-stamp sequences: non-decreasing, at most MaxKeys stamps in 0..MaxTime.
TimeSeqs ==
    {s \in UNION {[1..n -> 0..MaxTime] : n \in 0..MaxKeys} :
        \A k \in 1..(Len(s) - 1) : s[k] <= s[k + 1]}

\* The flat float array of an output accessor of `stride` floats per element.
Flatten(vecs, stride) ==
    [k \in 1..(Len(vecs) * stride) |->
        vecs[((k - 1) \div stride) + 1][((k - 1) % stride) + 1]]

\* A sampler with nk key values: nk vec4 for LINEAR and STEP, and an
\* in-tangent, a value and an out-tangent per key for CUBICSPLINE.
MakeSampler(interp, path, inputs, nk) ==
    LET n == IF interp = "CUBICSPLINE" THEN 3 * nk ELSE nk
        vecs == [e \in 1..n |-> PoolEntry(e - 1)]
    IN  [interpolation |-> interp, inputs |-> inputs, outputsVec4 |-> vecs,
         outputs |-> Flatten(vecs, Stride(path))]

\* Transform's state before any animation touches it.
DefaultTransform ==
    [translation |-> ToVec3(RVec(<<0, 0, 0, 0>>)),
     rotation |-> IdentityQuat,
     scale |-> ToVec3(RVec(<<1, 1, 1, 0>>))]

DeltaTimes == 0..MaxDeltaTime

NodeIds == {1, 2}

\* The state of a freshly constructed Animation that the loader has filled
\* with the given samplers, channels and end time.
Loaded(samplers, channels, e) ==
    /\ animation_samplers = samplers
    /\ animation_channels = channels
    /\ end = e
    /\ current_time = 0
    /\ nodes = [n \in NodeIds |-> DefaultTransform]
    /\ delta_time = 0
    /\ writes = <<>>
    /\ oob = {}
    /\ crashed = FALSE

\* The numbers of key values tried for a track of n time stamps: one fewer,
\* as many, one more.
ValueCounts(n) == {k \in {n - 1, n, n + 1} : k >= 0}

\* A clip of one channel on node 1.
Init ==
    \E interp \in InterpolationType, path \in PathType, inputs \in TimeSeqs,
       e \in 0..MaxEnd :
        \E nk \in ValueCounts(Len(inputs)) :
            Loaded(<<MakeSampler(interp, path, inputs, nk)>>,
                   <<[path |-> path, samplerIndex |-> 0, node |-> 1]>>, e)

Next == \E dt \in DeltaTimes : \E ub \in UbOutcomes : update(dt, ub)

Spec == Init /\ [][Next]_vars

\* Key quaternions <<x, y, z, w>>: zero, unit, opposite, orthogonal, non-unit.
QuatPool ==
    {<<0, 0, 0, 0>>, <<0, 0, 0, 1>>, <<0, 0, 0, -1>>, <<1, 0, 0, 0>>,
     <<0, 3, 4, 0>>}

\* Tangents of the CUBICSPLINE rotation keys.
TangentPool == {<<0, 0, 0, 0>>, <<2, -1, 0, 1>>}

\* A rotation sampler of two keys q1, q2 (tangent tg on both sides of each
\* key for CUBICSPLINE).
RotationSampler(interp, inputs, q1, q2, tg) ==
    LET vecs == IF interp = "CUBICSPLINE" THEN <<tg, q1, tg, tg, q2, tg>>
                ELSE <<q1, q2>>
    IN  [interpolation |-> interp, inputs |-> inputs, outputsVec4 |-> vecs,
         outputs |-> Flatten(vecs, 4)]

\* A clip of one rotation channel of two keys on node 1.
InitRotate ==
    \E interp \in InterpolationType, q1 \in QuatPool, q2 \in QuatPool,
       tg \in TangentPool, d \in 1..MaxTime :
        Loaded(<<RotationSampler(interp, <<0, d>>, q1, q2, tg)>>,
               <<[path |-> "ROTATION", samplerIndex |-> 0, node |-> 1]>>, d)

SpecRotate == InitRotate /\ [][Next]_vars

\* The tracks of a clip of two channels.
SiblingTracks ==
    {[interp |-> interp, path |-> path, inputs |-> inputs, nk |-> nk] :
        interp \in InterpolationType, path \in PathType,
        inputs \in {<<>>, <<0, 2>>}, nk \in 0..3}

\* A clip of two channels, the first on node 1 and the second on node 2.
InitSiblings ==
    \E a \in SiblingTracks, b \in SiblingTracks :
        /\ a.nk \in ValueCounts(Len(a.inputs))
        /\ b.nk \in ValueCounts(Len(b.inputs))
        /\ Loaded(<<MakeSampler(a.interp, a.path, a.inputs, a.nk),
                    MakeSampler(b.interp, b.path, b.inputs, b.nk)>>,
                  <<[path |-> a.path, samplerIndex |-> 0, node |-> 1],
                    [path |-> b.path, samplerIndex |-> 1, node |-> 2]>>, 2)

SpecSiblings == InitSiblings /\ [][Next]_vars

----------------------------------------------------------------------------
(* Vocabulary of the properties.  Under Spec the clip has one channel, on  *)
(* node 1, with sampler 0.                                                 *)

TheChannel == animation_channels[1]

TheSampler == At(animation_samplers, TheChannel.samplerIndex)

StrictlyIncreasing(inputs) ==
    \A k \in 1..(Len(inputs) - 1) : inputs[k] < inputs[k + 1]

\* As many key values as time stamps: one vec4 per stamp for LINEAR and STEP,
\* three (in-tangent, value, out-tangent) per stamp for CUBICSPLINE.
WellFormed(s) ==
    IF s.interpolation = "CUBICSPLINE"
    THEN Len(s.outputsVec4) = 3 * Len(s.inputs)
    ELSE Len(s.outputsVec4) = Len(s.inputs)

\* The value of key k (0-based), as a vec4 of integers.
KeyValue(s, k) ==
    IF s.interpolation = "CUBICSPLINE"
    THEN At(s.outputsVec4, 3 * k + 1)
    ELSE At(s.outputsVec4, k)

\* The animated property of a transform.
Property(transform, path) ==
    CASE path = "TRANSLATION" -> transform.translation
      [] path = "SCALE" -> transform.scale
      [] path = "ROTATION" -> transform.rotation

\* The segments (0-based) whose closed interval contains time t.
SegmentsAt(s, t) ==
    {i \in 0..(Len(s.inputs) - 2) :
        At(s.inputs, i) <= t /\ t <= At(s.inputs, i + 1)}

\* The clip of the concrete scenario: a LINEAR translation track with times
\* [0 s, 1 s] = [0, 2] ticks and values (0,0,0), (10,0,0).
Scenario ==
    /\ TheChannel.path = "TRANSLATION"
    /\ TheSampler.interpolation = "LINEAR"
    /\ TheSampler.inputs = <<0, 2>>
    /\ TheSampler.outputsVec4 = << <<0, 0, 0, 0>>, <<10, 0, 0, 0>> >>

\* The linear blend of the keys of segment i at time t, from the definition.
LinearValue(s, i, t) ==
    [c \in 1..3 |->
        RAdd(RInt(KeyValue(s, i)[c]),
             RMul(RInt(KeyValue(s, i + 1)[c] - KeyValue(s, i)[c]),
                  Rat(t - At(s.inputs, i), At(s.inputs, i + 1) - At(s.inputs, i))))]

----------------------------------------------------------------------------
(* C1 *)

\* C1 as stated: update(dt) advances the clock first and evaluates the
\* channels at the advanced time, so every sampler call of a tick is made at
\* the current_time the tick leaves behind; in the scenario, update(0.5 s)
\* from time 0 leaves the translation at (5,0,0).
C1_AdvanceThenEvaluate ==
    /\ ~crashed => \A k \in 1..Len(writes) : writes[k].time = current_time
    /\ (Scenario /\ ~crashed /\ delta_time = 1 /\ current_time = 1)
           => nodes[1].translation = <<RInt(5), RInt(0), RInt(0)>>

\* C1 amended: update(dt) evaluates the channels at the current_time it is
\* entered with and advances the clock afterwards.  For a well-formed LINEAR
\* translation track with strictly increasing stamps, a tick entered at a time
\* t inside a segment leaves the linear blend at t, not at t + dt; in the
\* scenario update(0.5 s) from time 0 leaves (0,0,0) and current_time 0.5 s,
\* and the tick entered at 0.5 s leaves (5,0,0).
C1_EvaluateThenAdvance ==
    /\ [][(/\ TheChannel.path = "TRANSLATION"
            /\ TheSampler.interpolation = "LINEAR"
            /\ WellFormed(TheSampler)
            /\ StrictlyIncreasing(TheSampler.inputs)
            /\ ~crashed')
           => \A i \in SegmentsAt(TheSampler, current_time) :
                  nodes'[1].translation = LinearValue(TheSampler, i, current_time)]_vars
    /\ [][(Scenario /\ current_time = 1 /\ ~crashed')
           => nodes'[1].translation = <<RInt(5), RInt(0), RInt(0)>>]_vars
    /\ []((Scenario /\ ~crashed /\ delta_time = 1 /\ current_time = 1)
           => nodes[1].translation = <<RInt(0), RInt(0), RInt(0)>>)

\* The scenario after update(0.5 s), update(dt): the second tick has written
\* the value at 0.5 s.
C1_Witness ==
    /\ Scenario
    /\ Len(writes) = 1
    /\ writes[1].time = 1
    /\ nodes[1].translation = <<RInt(5), RInt(0), RInt(0)>>

----------------------------------------------------------------------------
(* C2 *)

\* C2: every update(dt) that returns sets current_time to old + dt when
\* old + dt <= end and to exactly 0 otherwise, and 0 <= current_time <= end
\* always holds (dt >= 0, end >= 0, current_time = 0 at the start).
C2_ClockWraps ==
    /\ [](0 <= current_time /\ current_time <= end)
    /\ [][~crashed' =>
            /\ current_time + delta_time' <= end
                   => current_time' = current_time + delta_time'
            /\ current_time + delta_time' > end => current_time' = 0]_vars

\* A tick that crossed end with an overshoot and reset the clock.
C2_Witness ==
    /\ ~crashed
    /\ end = 2
    /\ delta_time = 2
    /\ current_time = 0
    /\ writes # <<>>
    /\ writes[1].time = 2

----------------------------------------------------------------------------
(* C3 *)

\* The number of key values of a track.
ValueCount(s) ==
    IF s.interpolation = "CUBICSPLINE"
    THEN Len(s.outputsVec4) \div 3
    ELSE Len(s.outputsVec4)

\* C3 as stated: a channel whose track has a number of time stamps different
\* from its number of values, more or fewer, is skipped by update: no write
\* to its node and no error.  Stated for the ticks that read nothing out of
\* range, where no error can hide the write.
C3_MismatchSkipped ==
    (Len(TheSampler.inputs) # ValueCount(TheSampler) /\ oob = {} /\ ~crashed)
        => writes = <<>>

\* C3 amended: a channel whose track has more time stamps than outputsVec4
\* has entries is skipped by update: no write to its node, no out-of-range
\* read, no error.  (A track with fewer time stamps than values is not
\* skipped.)
C3_LongerInputsSkipped ==
    Len(TheSampler.inputs) > Len(TheSampler.outputsVec4)
        => writes = <<>> /\ oob = {} /\ ~crashed /\ nodes[1] = DefaultTransform

\* A track with two time stamps from 0 and one value, after the tick at
\* time 0, which lies in its only segment.
C3_Witness ==
    /\ Len(TheSampler.inputs) = 2
    /\ Len(TheSampler.outputsVec4) = 1
    /\ TheSampler.inputs[1] = 0
    /\ TheSampler.inputs[2] = 2
    /\ current_time = 1
    /\ delta_time = 1
    /\ writes = <<>>

----------------------------------------------------------------------------
(* C4 *)

\* C4 as stated: no channel is applied to its node more than once in a tick,
\* and at a time stamp shared by segments i and i+1 the one evaluation uses
\* the earlier segment i.  Stated for tracks with strictly increasing time
\* stamps and ticks that read nothing out of range.
C4_EvaluatedOnce ==
    (StrictlyIncreasing(TheSampler.inputs) /\ oob = {} /\ ~crashed) =>
        /\ \A j, k \in 1..Len(writes) :
               writes[j].channel = writes[k].channel => j = k
        /\ \A k \in 1..Len(writes) :
               \A i \in SegmentsAt(TheSampler, writes[k].time) :
                   writes[k].index <= i

\* C4 amended: for a track with strictly increasing time stamps that update
\* does not skip, a tick at a time stamp shared by segments i and i+1
\* evaluates the channel twice, with segment i and then with segment i+1, so
\* that the later segment's value is the one left in the node; a tick
\* evaluates a channel once per segment containing the time, in ascending
\* order, hence at most twice; and repeating the tick at the same time repeats
\* the same evaluations.
C4_EvaluatedPerSegment ==
    /\ []((/\ StrictlyIncreasing(TheSampler.inputs)
           /\ oob = {}
           /\ writes # <<>>)
          => /\ Len(writes) = Cardinality(SegmentsAt(TheSampler, writes[1].time))
             /\ Len(writes) <= 2
             /\ \A k \in 1..Len(writes) :
                    /\ writes[k].index \in SegmentsAt(TheSampler, writes[1].time)
                    /\ writes[k].time = writes[1].time
                    /\ k > 1 => writes[k].index = writes[k - 1].index + 1
             /\ \A i \in 0..(Len(TheSampler.inputs) - 3) :
                    writes[1].time = At(TheSampler.inputs, i + 1)
                        => /\ Len(writes) = 2
                           /\ writes[1].index = i
                           /\ writes[2].index = i + 1)
    /\ [][(/\ StrictlyIncreasing(TheSampler.inputs)
           /\ oob = {} /\ oob' = {}
           /\ writes # <<>>
           /\ writes[1].time = current_time)
          => writes' = writes /\ nodes' = nodes]_vars

\* A tick at the stamp shared by segments 0 and 1 that evaluated both.
C4_Witness ==
    /\ Len(TheSampler.inputs) = 3
    /\ StrictlyIncreasing(TheSampler.inputs)
    /\ Len(writes) = 2
    /\ writes[1].index = 0
    /\ writes[2].index = 1
    /\ writes[1].time = TheSampler.inputs[2]

----------------------------------------------------------------------------
(* C5 *)

\* The cubic Hermite spline of segment `index` at `time`, from the formula:
\* p0 the value of key index, m0 = delta * its out-tangent, p1 the value of
\* key index + 1, m1 = delta * its in-tangent; a key is laid out in the flat
\* array as in-tangent, value, out-tangent.
HermiteSpline(s, index, time, stride) ==
    LET delta == At(s.inputs, index + 1) - At(s.inputs, index)
        t == Rat(time - At(s.inputs, index), delta)
        t2 == RMul(t, t)
        t3 == RMul(t2, t)
        inTangent(k, c) == At(s.outputs, k * 3 * stride + c)
        value(k, c) == At(s.outputs, k * 3 * stride + stride + c)
        outTangent(k, c) == At(s.outputs, k * 3 * stride + 2 * stride + c)
        h00 == RAdd(RSub(RMul(RInt(2), t3), RMul(RInt(3), t2)), RInt(1))
        h10 == RAdd(RSub(t3, RMul(RInt(2), t2)), t)
        h01 == RSub(RMul(RInt(3), t2), RMul(RInt(2), t3))
        h11 == RSub(t3, t2)
    IN  [c \in 1..stride |->
            RAdd(RAdd(RMul(h00, RInt(value(index, c - 1))),
                      RMul(h10, RInt(delta * outTangent(index, c - 1)))),
                 RAdd(RMul(h01, RInt(value(index + 1, c - 1))),
                      RMul(h11, RInt(delta * inTangent(index + 1, c - 1)))))]

\* C5 as stated: for a well-formed CUBICSPLINE track with strictly increasing
\* time stamps, every value that cubicSplineInterpolation produces in a tick
\* (and the vec3 it leaves in the node) equals the cubic Hermite spline of the
\* segment.
C5_HermiteFormula ==
    (/\ TheSampler.interpolation = "CUBICSPLINE"
     /\ WellFormed(TheSampler)
     /\ StrictlyIncreasing(TheSampler.inputs)
     /\ ~crashed)
    => /\ \A k \in 1..Len(writes) :
              cubicSplineInterpolation(TheSampler, writes[k].index, writes[k].time,
                                       Stride(TheChannel.path), 0)
              = HermiteSpline(TheSampler, writes[k].index, writes[k].time,
                              Stride(TheChannel.path))
       /\ (writes # <<>> /\ TheChannel.path # "ROTATION")
              => Property(nodes[1], TheChannel.path)
                 = HermiteSpline(TheSampler, writes[Len(writes)].index,
                                 writes[Len(writes)].time, 3)

----------------------------------------------------------------------------
(* C6 *)

\* The claim of C6 for the tracks of at least minKeys time stamps: a tick
\* entered at a time stamp times[k] leaves the key value values[k] in the
\* animated property.
KeyExactness(minKeys) ==
    (/\ TheSampler.interpolation \in {"LINEAR", "CUBICSPLINE"}
     /\ TheChannel.path \in {"TRANSLATION", "SCALE"}
     /\ WellFormed(TheSampler)
     /\ StrictlyIncreasing(TheSampler.inputs)
     /\ Len(TheSampler.inputs) >= minKeys
     /\ ~crashed')
    => \A k \in 0..(Len(TheSampler.inputs) - 1) :
           current_time = At(TheSampler.inputs, k)
               => Property(nodes'[1], TheChannel.path)
                  = ToVec3(RVec(KeyValue(TheSampler, k)))

\* C6 as stated: for a well-formed LINEAR or CUBICSPLINE translation/scale
\* track with strictly increasing time stamps, a tick evaluated at
\* current_time = times[k], for every k in 0..N-1, leaves values[k] in the
\* node's property.
C6_KeyExact == [][KeyExactness(0)]_vars

\* C6 amended: the same, for a track of at least two time stamps (N >= 2).  A
\* track of a single time stamp has no segment, and update never writes it.
C6_KeyExactWithSegment == [][KeyExactness(2)]_vars

\* A CUBICSPLINE track of three keys after the tick at its middle stamp: both
\* segments were evaluated and the middle key's value is in the node.
C6_Witness ==
    /\ TheSampler.interpolation = "CUBICSPLINE"
    /\ TheChannel.path = "SCALE"
    /\ WellFormed(TheSampler)
    /\ TheSampler.inputs = <<0, 1, 2>>
    /\ Len(writes) = 2
    /\ writes[1].time = 1
    /\ nodes[1].scale = ToVec3(RVec(KeyValue(TheSampler, 1)))
    /\ nodes[1].scale # DefaultTransform.scale

----------------------------------------------------------------------------
(* C7 *)

\* The value that a STEP key leaves in the animated property.
StepValue(s, path, i) ==
    IF path = "ROTATION" THEN Quat(RVec(KeyValue(s, i)))
    ELSE ToVec3(RVec(KeyValue(s, i)))

\* C7: for a well-formed STEP track with strictly increasing time stamps, a
\* tick entered at a time t with times[i] <= t < times[i+1] leaves exactly
\* values[i] in the animated property, also when t = times[i] ends segment
\* i - 1.
C7_StepHolds ==
    [][(/\ TheSampler.interpolation = "STEP"
        /\ WellFormed(TheSampler)
        /\ StrictlyIncreasing(TheSampler.inputs)
        /\ ~crashed')
       => \A i \in 0..(Len(TheSampler.inputs) - 2) :
              (At(TheSampler.inputs, i) <= current_time
               /\ current_time < At(TheSampler.inputs, i + 1))
                  => Property(nodes'[1], TheChannel.path)
                     = StepValue(TheSampler, TheChannel.path, i)]_vars

\* A STEP track after the tick at the stamp shared by segments 0 and 1: both
\* were evaluated, and the value of key 1 is in the node.
C7_Witness ==
    /\ TheSampler.interpolation = "STEP"
    /\ WellFormed(TheSampler)
    /\ TheSampler.inputs = <<0, 1, 2>>
    /\ Len(writes) = 2
    /\ writes[1].time = 1
    /\ Property(nodes[1], TheChannel.path)
       = StepValue(TheSampler, TheChannel.path, 1)
    /\ Property(nodes[1], TheChannel.path)
       # StepValue(TheSampler, TheChannel.path, 0)

----------------------------------------------------------------------------
(* C10 *)

\* C10 as stated: for a track that passes the check of update
\* (inputs.size() <= outputsVec4.size()), a tick reads inputs and outputsVec4
\* only at indices below their lengths.
C10_ReadsInRange ==
    ~Skipped(TheSampler) => ("inputs" \notin oob /\ "outputsVec4" \notin oob)

----------------------------------------------------------------------------
(* C8, under SpecRotate *)

\* C8 as stated: every rotation that a tick writes, in STEP, LINEAR and
\* CUBICSPLINE mode and for any key quaternions, has magnitude 1.
C8_UnitRotation ==
    (~crashed /\ writes # <<>>) => Length2(nodes[1].rotation) = RInt(1)

\* C8 amended: every rotation that a tick writes in LINEAR or CUBICSPLINE mode
\* is the result of a unit normalisation and has magnitude 1; in STEP mode the
\* key quaternion is written as it is, without normalisation.
C8_UnitUnlessStep ==
    (~crashed /\ writes # <<>>)
        => IF TheSampler.interpolation = "STEP"
           THEN nodes[1].rotation
                = Quat(RVec(KeyValue(TheSampler, writes[Len(writes)].index)))
           ELSE Length2(nodes[1].rotation) = RInt(1)

\* A LINEAR tick half way between two orthogonal keys, one of them of length
\* 5: the blend was normalised.
C8_Witness ==
    /\ TheSampler.interpolation = "LINEAR"
    /\ TheSampler.outputsVec4 = << <<1, 0, 0, 0>>, <<0, 3, 4, 0>> >>
    /\ TheSampler.inputs = <<0, 2>>
    /\ writes # <<>>
    /\ writes[1].time = 1
    /\ nodes[1].rotation.n2 # RInt(1)
    /\ Length2(nodes[1].rotation) = RInt(1)

----------------------------------------------------------------------------
(* C9, under SpecSiblings *)

SamplerOf(c) == At(animation_samplers, animation_channels[c].samplerIndex)

\* A track whose number of time stamps differs from its number of values.
Malformed(s) == Len(s.inputs) # ValueCount(s)

\* C9 as stated: in a clip with a malformed channel m, wherever m stands in
\* the channel list, a tick returns, advances the clock, and evaluates every
\* well-formed channel c that has a segment containing current_time.
C9_SiblingsEvaluated ==
    [][\A m, c \in 1..Len(animation_channels) :
           (/\ Malformed(SamplerOf(m))
            /\ WellFormed(SamplerOf(c))
            /\ StrictlyIncreasing(SamplerOf(c).inputs)
            /\ SegmentsAt(SamplerOf(c), current_time) # {})
           => /\ ~crashed'
              /\ current_time' = IF current_time + delta_time' > end THEN 0
                                 ELSE current_time + delta_time'
              /\ \E k \in 1..Len(writes') : writes'[k].channel = c]_vars

====
